---- MODULE Spec2Model ----
(***************************************************************************)
(* RogueViz - Grigorchuk group (rogueviz/grigorchuk.cpp).                  *)
(*                                                                         *)
(* The canonical representatives (struct rep) are modelled as records; a   *)
(* pointer to a representative (prep) is its index in the sequence `reps`: *)
(* the five static objects grig_I, grig_a, grig_b, grig_c, grig_d come     *)
(* first, followed by the keys of the map all_reps in allocation order.    *)
(* Characters are their ASCII codes, so that the XOR in add() is computed. *)
(***************************************************************************)
EXTENDS Integers, Sequences, FiniteSets, TLC

\* ------------------------------------------------------------------ bounds
MaxLimit   == 3    \* values of -grig-limit that are tried: 0..MaxLimit
MaxNodes   == 3    \* heptagons the free exploration may allocate
MaxMul     == 1    \* direct calls of mul per behaviour
MaxArg     == 7    \* direct calls of mul take operands among the first MaxArg representatives
MaxMaps    == 1    \* maps constructed per behaviour
MaxWordLen == 3    \* length of the words w1, w2
MaxSeqLen  == 2    \* length of a way of travelling
MaxIter    == 64   \* iterations of the loop of deform that are followed

\* heptagons up to which a way of travelling is followed
MaxWalk == MaxNodes + 6 * MaxSeqLen * MaxSeqLen

\* -------------------------------------------------------------- characters
NUL  == 0
ch_a == 97
ch_b == 98
ch_c == 99
ch_d == 100
ch_A == 65
ch_C == 67

Letters == {ch_a, ch_b, ch_c, ch_d}

RECURSIVE Xor(_, _)
Xor(m, n) ==
  IF m = 0 THEN n
  ELSE IF n = 0 THEN m
  ELSE (((m % 2) + (n % 2)) % 2) + 2 * Xor(m \div 2, n \div 2)

\* With(v, F) is F(v) with v evaluated once
With(v, F(_)) == CHOOSE r \in {F(x) : x \in {v}} : TRUE

Last(s) == s[Len(s)]
PopBack(s) == SubSeq(s, 1, Len(s) - 1)

\* F applied n times to s
RECURSIVE Iterate(_, _, _)
Iterate(F(_), n, s) ==
  IF n = 0 THEN s
  ELSE IF n = 1 THEN F(s)
  ELSE With(Iterate(F, n \div 2, s), LAMBDA h : Iterate(F, n - (n \div 2), h))

Reverse(s) == [i \in 1..Len(s) |-> s[Len(s) + 1 - i]]

\* ---------------------------------------------------- words: add, split, empt
\* add with the constant 'd' ^ 'b' ^ 'c' left out of the XOR
add_noconst(s, c) ==
  IF Len(s) = 0 THEN Append(s, c)
  ELSE IF c = Last(s) THEN PopBack(s)
  ELSE IF c # ch_a /\ Last(s) # ch_a
    THEN Append(PopBack(s), Xor(Last(s), c))
  ELSE Append(s, c)

\* add: c cancels an equal last letter, merges with another of b, c, d into
\* the third of them, and is appended otherwise
add(s, c) ==
  IF Len(s) = 0 THEN Append(s, c)
  ELSE IF c = Last(s) THEN PopBack(s)
  ELSE IF c # ch_a /\ Last(s) # ch_a
    THEN Append(PopBack(s), Xor(Xor(Xor(Xor(Last(s), c), ch_d), ch_b), ch_c))
  ELSE Append(s, c)

\* one iteration of the loop of split on the triple <<swapped, s0, s1>>
split_step(sw, c) ==
  LET swapped == sw[1]
      s0 == sw[2]
      s1 == sw[3]
  IN IF c = ch_b THEN <<swapped, add(s0, IF swapped THEN ch_a ELSE ch_c),
                                 add(s1, IF swapped THEN ch_c ELSE ch_a)>>
     ELSE IF c = ch_c THEN <<swapped, add(s0, IF swapped THEN ch_a ELSE ch_d),
                                      add(s1, IF swapped THEN ch_d ELSE ch_a)>>
     ELSE IF c = ch_d THEN (IF swapped THEN <<swapped, s0, add(s1, ch_b)>>
                                       ELSE <<swapped, add(s0, ch_b), s1>>)
     ELSE IF c = ch_a THEN <<~swapped, s0, s1>>
     ELSE sw

RECURSIVE split_from(_, _)
split_from(sw, s) ==
  IF s = <<>> THEN sw ELSE split_from(split_step(sw, Head(s)), Tail(s))

split(s) == split_from(<<FALSE, <<>>, <<>>>>, s)

RECURSIVE empt(_)
empt(x) ==
  LET sw == split(x)
  IN IF x = <<>> THEN TRUE
     ELSE IF x = <<ch_d>> THEN FALSE
     ELSE IF sw[1] THEN FALSE
     ELSE empt(sw[2]) /\ empt(sw[3])

\* ------------------------------------------------------ representatives
grig_I == 1
grig_a == 2
grig_b == 3
grig_c == 4
grig_d == 5
NULL   == 0

\* struct rep and its constructor: vis defaults to false, len is set to -1
rep(s, a0, a1, l) ==
  [swapped |-> s, a0 |-> a0, a1 |-> a1, last |-> l, visited |-> FALSE, len |-> -1]

\* operator == on rep: the triple (swapped, a0, a1) only
RepEq(a, b) == <<a.swapped, a.a0, a.a1>> = <<b.swapped, b.a0, b.a1>>

\* the five static objects
Statics ==
  << rep(FALSE, grig_I, grig_I, NUL),
     rep(TRUE,  grig_I, grig_I, ch_a),
     rep(FALSE, grig_a, grig_c, ch_b),
     rep(FALSE, grig_a, grig_d, ch_c),
     rep(FALSE, grig_I, grig_b, ch_d) >>

\* the keys of all_reps within the store S
all_reps(S) == (grig_d + 1) .. Len(S)

\* lookup without the comparison with grig_a
lookup_forgets_a(S, x) ==
  IF RepEq(x, S[grig_I]) THEN [S |-> S, r |-> grig_I]
  ELSE IF RepEq(x, S[grig_b]) THEN [S |-> S, r |-> grig_b]
  ELSE IF RepEq(x, S[grig_c]) THEN [S |-> S, r |-> grig_c]
  ELSE IF RepEq(x, S[grig_d]) THEN [S |-> S, r |-> grig_d]
  ELSE IF \E i \in all_reps(S) : RepEq(x, S[i])
    THEN [S |-> S, r |-> CHOOSE i \in all_reps(S) : RepEq(x, S[i])]
  ELSE [S |-> Append(S, x), r |-> Len(S) + 1]

\* lookup on the store S: the five static objects first, then all_reps; r is
\* the pointer returned and S the store after the call
lookup(S, x) ==
  IF RepEq(x, S[grig_I]) THEN [S |-> S, r |-> grig_I]
  ELSE IF RepEq(x, S[grig_a]) THEN [S |-> S, r |-> grig_a]
  ELSE IF RepEq(x, S[grig_b]) THEN [S |-> S, r |-> grig_b]
  ELSE IF RepEq(x, S[grig_c]) THEN [S |-> S, r |-> grig_c]
  ELSE IF RepEq(x, S[grig_d]) THEN [S |-> S, r |-> grig_d]
  ELSE IF \E i \in all_reps(S) : RepEq(x, S[i])
    THEN [S |-> S, r |-> CHOOSE i \in all_reps(S) : RepEq(x, S[i])]
  ELSE [S |-> Append(S, x), r |-> Len(S) + 1]

\* mul_fast with b * c answered by c
mul_fast_bc(x, y) ==
  IF x = grig_I THEN y
  ELSE IF y = grig_I THEN x
  ELSE IF x = grig_a /\ y = grig_a THEN grig_I
  ELSE IF x = grig_b /\ y = grig_b THEN grig_I
  ELSE IF x = grig_c /\ y = grig_c THEN grig_I
  ELSE IF x = grig_d /\ y = grig_d THEN grig_I
  ELSE IF x = grig_b /\ y = grig_c THEN grig_c
  ELSE IF x = grig_c /\ y = grig_b THEN grig_d
  ELSE IF x = grig_b /\ y = grig_d THEN grig_c
  ELSE IF x = grig_d /\ y = grig_b THEN grig_c
  ELSE IF x = grig_c /\ y = grig_d THEN grig_b
  ELSE IF x = grig_d /\ y = grig_c THEN grig_b
  ELSE NULL

\* the constant-time cases of mul; NULL when none applies
mul_fast(x, y) ==
  IF x = grig_I THEN y
  ELSE IF y = grig_I THEN x
  ELSE IF x = grig_a /\ y = grig_a THEN grig_I
  ELSE IF x = grig_b /\ y = grig_b THEN grig_I
  ELSE IF x = grig_c /\ y = grig_c THEN grig_I
  ELSE IF x = grig_d /\ y = grig_d THEN grig_I
  ELSE IF x = grig_b /\ y = grig_c THEN grig_d
  ELSE IF x = grig_c /\ y = grig_b THEN grig_d
  ELSE IF x = grig_b /\ y = grig_d THEN grig_c
  ELSE IF x = grig_d /\ y = grig_b THEN grig_c
  ELSE IF x = grig_c /\ y = grig_d THEN grig_b
  ELSE IF x = grig_d /\ y = grig_c THEN grig_b
  ELSE NULL

RECURSIVE mul(_, _, _)
RECURSIVE mul_rep(_, _, _)

\* the temporary rep{...} with the label of x in place of the label of y
mul_rep_label_x(S, x, y) ==
  IF ~S[y].swapped
    THEN With(mul(S, S[x].a0, S[y].a0), LAMBDA m0 :
         With(mul(m0.S, S[x].a1, S[y].a1), LAMBDA m1 :
           [S |-> m1.S, x |-> rep(S[x].swapped, m0.r, m1.r, m1.S[x].last)]))
    ELSE With(mul(S, S[x].a1, S[y].a0), LAMBDA m0 :
         With(mul(m0.S, S[x].a0, S[y].a1), LAMBDA m1 :
           [S |-> m1.S, x |-> rep(~S[x].swapped, m0.r, m1.r, m1.S[x].last)]))

\* the temporary rep{...} built in the last two lines of mul, and the store
\* after the two inner calls (evaluated left to right in the braced list)
mul_rep(S, x, y) ==
  IF ~S[y].swapped
    THEN With(mul(S, S[x].a0, S[y].a0), LAMBDA m0 :
         With(mul(m0.S, S[x].a1, S[y].a1), LAMBDA m1 :
           [S |-> m1.S, x |-> rep(S[x].swapped, m0.r, m1.r, m1.S[y].last)]))
    ELSE With(mul(S, S[x].a1, S[y].a0), LAMBDA m0 :
         With(mul(m0.S, S[x].a0, S[y].a1), LAMBDA m1 :
           [S |-> m1.S, x |-> rep(~S[x].swapped, m0.r, m1.r, m1.S[y].last)]))

mul(S, x, y) ==
  With(mul_fast(x, y), LAMBDA f :
    IF f # NULL THEN [S |-> S, r |-> f]
    ELSE With(mul_rep(S, x, y), LAMBDA c : lookup(c.S, c.x)))

\* the static object of a generator letter
gen(c) ==
  IF c = ch_a THEN grig_a
  ELSE IF c = ch_b THEN grig_b
  ELSE IF c = ch_c THEN grig_c
  ELSE grig_d

\* the left-to-right product of a word, from x on
product_step(s) ==
  With(mul(s.S, s.r, gen(Head(s.w))), LAMBDA m : [S |-> m.S, r |-> m.r, w |-> Tail(s.w)])

product(S, x, w) ==
  With(Iterate(product_step, Len(w), [S |-> S, r |-> x, w |-> w]), LAMBDA s :
    [S |-> s.S, r |-> s.r])

\* ------------------------------------------------------------------ deform
\* one iteration of the while loop of deform on (store, x2, t); with x2 the
\* identity the loop has ended, with a label that no branch takes it spins
deform_step(s) ==
  IF s.x2 = grig_I THEN s
  ELSE With(s.S[s.x2].last, LAMBDA l :
    IF l = ch_a
      THEN With(mul(s.S, s.x2, grig_a), LAMBDA m :
             [S |-> m.S, x2 |-> m.r, t |-> Append(s.t, ch_a)])
    ELSE IF l = ch_b
      THEN With(mul(s.S, s.x2, grig_b), LAMBDA m :
             [S |-> m.S, x2 |-> m.r, t |-> Append(s.t, ch_b)])
    ELSE IF l = ch_c
      THEN With(mul(s.S, s.x2, grig_c), LAMBDA m :
             [S |-> m.S, x2 |-> m.r, t |-> Append(s.t, ch_c)])
    ELSE IF l = ch_d
      THEN With(mul(s.S, s.x2, grig_d), LAMBDA m :
             [S |-> m.S, x2 |-> m.r, t |-> Append(s.t, ch_d)])
    ELSE IF l = ch_A
      THEN With(mul(s.S, s.x2, grig_c), LAMBDA m1 :
           With(mul(m1.S, m1.r, grig_a), LAMBDA m2 :
             [S |-> m2.S, x2 |-> m2.r, t |-> s.t \o <<ch_c, ch_a>>]))
    ELSE IF l = ch_C
      THEN With(mul(s.S, s.x2, grig_a), LAMBDA m1 :
           With(mul(m1.S, m1.r, grig_c), LAMBDA m2 :
             [S |-> m2.S, x2 |-> m2.r, t |-> s.t \o <<ch_a, ch_c>>]))
    ELSE s)

\* the loop of deform, followed for MaxIter iterations
deform_loop(S, x2) == Iterate(deform_step, MaxIter, [S |-> S, x2 |-> x2, t |-> <<>>])

\* deform without the final reverse
deform_noreverse(S, x2) ==
  With(deform_loop(S, x2), LAMBDA l :
    [S |-> l.S, t |-> l.t, ok |-> l.x2 = grig_I])

\* deform: ok is FALSE when the loop has not ended after MaxIter iterations
deform(S, x2) ==
  With(deform_loop(S, x2), LAMBDA l :
    [S |-> l.S, t |-> Reverse(l.t), ok |-> l.x2 = grig_I])

\* ----------------------------------------------------------------- prepare
\* visit without the test of visited
visit_again(P, x, l, d) ==
  [S   |-> [P.S EXCEPT ![x].visited = TRUE, ![x].last = l, ![x].len = d],
   all |-> Append(P.all, x)]

\* the lambda visit of prepare, on the pair P = (store, vector all)
visit(P, x, l, d) ==
  IF ~P.S[x].visited
    THEN [S   |-> [P.S EXCEPT ![x].visited = TRUE, ![x].last = l, ![x].len = d],
          all |-> Append(P.all, x)]
    ELSE P

\* mul(x, g) followed by visit(., l, x->len + 1), as in the loop of prepare
visit_mul(P, x, g, l) ==
  With(mul(P.S, x, g), LAMBDA m :
    visit([S |-> m.S, all |-> P.all], m.r, l, m.S[x].len + 1))

\* the body of the for loop of prepare on (store, vector all, index i)
prepare_body(P, pac, pca) ==
  With(P.all[P.i + 1], LAMBDA x :
  With(visit_mul(P, x, grig_b, ch_b), LAMBDA P1 :
  With(visit_mul(P1, x, pac, ch_A), LAMBDA P2 :
  With(visit_mul(P2, x, pca, ch_C), LAMBDA P3 :
    [S |-> P3.S, all |-> P3.all, i |-> P.i + 1]))))

\* the for loop of prepare
prepare_loop(P, limit, pac, pca) ==
  Iterate(LAMBDA s : prepare_body(s, pac, pca), limit,
          [S |-> P.S, all |-> P.all, i |-> 0])

\* prepare(): ac, ca, the enumeration, and the test word badad that is decoded
\* and printed at the end
prepare(S, limit) ==
  With(mul(S, grig_a, grig_c), LAMBDA mac :
  With(mul(mac.S, grig_c, grig_a), LAMBDA mca :
  With(prepare_loop(visit([S |-> mca.S, all |-> <<>>], grig_I, NUL, 0),
                    limit, mac.r, mca.r), LAMBDA P :
  With(product(P.S, grig_b, <<ch_a, ch_d, ch_a, ch_d>>), LAMBDA t :
  With(deform(t.S, t.r), LAMBDA dt :
    [S |-> dt.S, ac |-> mac.r, ca |-> mca.r, all |-> P.all, ok |-> dt.ok])))))

\* ------------------------------------------------------------------- state
VARIABLES
  reps,        \* grig_I, grig_a, grig_b, grig_c, grig_d and the keys of all_reps
  prepared,    \* bool prepared
  ac, ca,      \* prep ac, ca
  grig_limit,  \* int grig_limit (-grig-limit)
  all,         \* the vector all of prepare, kept after it returns
  dec, enc,    \* hrmap_grigorchuk::dec, enc; the heptagon h is the index h of dec
  distance,    \* heptagon::distance
  cmove,       \* the connections made by h->c.connect
  nmaps,       \* maps constructed so far
  nmul, call,  \* direct calls of mul so far, and the last one
  w1, r1, w2, r2,  \* two words and their products
  assoc,       \* the last associativity test
  walk         \* the way of travelling that is being followed

vars == <<reps, prepared, ac, ca, grig_limit, all, dec, enc, distance, cmove,
          nmaps, nmul, call, w1, r1, w2, r2, assoc, walk>>

coreVars == <<reps, prepared, ac, ca, grig_limit, all>>
mapVars  == <<dec, enc, distance, cmove, nmaps>>
obsVars  == <<nmul, call>>
wordVars == <<w1, r1, w2, r2>>

NoCall == [x |-> NULL, y |-> NULL, r |-> NULL, general |-> FALSE, ylast |-> NUL,
           cand |-> <<>>, n0 |-> 0, n1 |-> 0, rold |-> NUL, rlast |-> NUL]
NoWalk == [on |-> FALSE, s |-> <<>>, i |-> 0, at |-> NULL, start |-> NULL, moved |-> FALSE]

Init ==
  /\ reps = Statics
  /\ prepared = FALSE
  /\ ac = NULL
  /\ ca = NULL
  /\ grig_limit \in 0..MaxLimit
  /\ all = <<>>
  /\ dec = <<>>
  /\ enc = <<>>
  /\ distance = <<>>
  /\ cmove = <<>>
  /\ nmaps = 0
  /\ nmul = 0
  /\ call = NoCall
  /\ w1 = <<>>
  /\ r1 = grig_I
  /\ w2 = <<>>
  /\ r2 = grig_I
  /\ assoc = [x |-> NULL, y |-> NULL, z |-> NULL, l |-> NULL, r |-> NULL]
  /\ walk = NoWalk

\* prepared is set and no map was bound: the first constructor is still in
\* prepare(), whose call of deform on the test word has not returned
InPrepare == prepared /\ nmaps = 0

\* ----------------------------------------------------------------- actions
\* a direct call mul(x, y) on two existing representatives. call records it:
\* general is TRUE when no constant-time case applied, cand is the triple handed
\* to lookup, n0 and n1 are the sizes of the store before and after that lookup,
\* rold and rlast are the field last of the result before and after it
Mul(x, y) ==
  /\ nmul < MaxMul
  /\ ~InPrepare
  /\ ~walk.on
  /\ \E m \in {mul(reps, x, y)} :
       /\ reps' = m.S
       /\ IF mul_fast(x, y) # NULL
            THEN call' = [x |-> x, y |-> y, r |-> m.r, general |-> FALSE,
                          ylast |-> reps[y].last, cand |-> <<>>,
                          n0 |-> Len(reps), n1 |-> Len(m.S),
                          rold |-> reps[m.r].last, rlast |-> m.S[m.r].last]
            ELSE \E c \in {mul_rep(reps, x, y)} :
                   call' = [x |-> x, y |-> y, r |-> m.r, general |-> TRUE,
                            ylast |-> reps[y].last,
                            cand |-> <<c.x.swapped, c.x.a0, c.x.a1>>,
                            n0 |-> Len(c.S), n1 |-> Len(m.S),
                            rold |-> IF m.r <= Len(c.S) THEN c.S[m.r].last ELSE NUL,
                            rlast |-> m.S[m.r].last]
  /\ nmul' = nmul + 1
  /\ UNCHANGED <<prepared, ac, ca, grig_limit, all, assoc, walk>>
  /\ UNCHANGED mapVars
  /\ UNCHANGED wordVars

\* hrmap_grigorchuk::gtie on the pair M = (dec, enc)
gtie(M, h, p) ==
  [dec |-> [i \in (DOMAIN M.dec) \cup {h} |-> IF i = h THEN p ELSE M.dec[i]],
   enc |-> [q \in (DOMAIN M.enc) \cup {p} |-> IF q = p THEN h ELSE M.enc[q]]]

\* the constructor of hrmap_grigorchuk: prepare() on first use, then the origin
hrmap_grigorchuk ==
  /\ nmaps < MaxMaps
  /\ ~InPrepare
  /\ ~walk.on
  /\ \E P \in {IF prepared
                 THEN [S |-> reps, ac |-> ac, ca |-> ca, all |-> all, ok |-> TRUE]
                 ELSE prepare(reps, grig_limit)} :
     \E M \in {gtie([dec |-> <<>>, enc |-> <<>>], 1, grig_I)} :
       /\ reps' = P.S
       /\ ac' = P.ac
       /\ ca' = P.ca
       /\ all' = P.all
       /\ prepared' = TRUE
       /\ IF P.ok
            THEN /\ dec' = M.dec
                 /\ enc' = M.enc
                 /\ distance' = <<0>>
                 /\ cmove' = <<>>
                 /\ nmaps' = nmaps + 1
            ELSE UNCHANGED mapVars
  /\ UNCHANGED <<grig_limit, assoc, walk>>
  /\ UNCHANGED obsVars
  /\ UNCHANGED wordVars

\* the switch of create_step: the representative of the neighbour of pr
step_rep(S, pr, d) ==
  IF d = 0 THEN With(mul(S, pr, grig_a), LAMBDA m1 : mul(m1.S, m1.r, grig_c))
  ELSE IF d = 1 THEN With(mul(S, pr, grig_c), LAMBDA m1 : mul(m1.S, m1.r, grig_a))
  ELSE mul(S, pr, grig_b)

\* an adapter whose enc.count(pr) is never true
step_node_none(M, pr) == NULL

\* enc.count(pr) ? enc[pr] : none
step_node(M, pr) == IF pr \in DOMAIN M.enc THEN M.enc[pr] ELSE NULL

\* "ACb"[d + 1], one character too far
step_label_next(d) == <<ch_C, ch_b, NUL>>[d + 1]

\* "ACb"[d]
step_label(d) == <<ch_A, ch_C, ch_b>>[d + 1]

\* hrmap_grigorchuk::create_step on the pair M = (dec, enc), the store S, the
\* distances and the connections: their values after the call, and the
\* heptagon h that is returned
create_step(S, M, dist, cm, p, d) ==
  With(step_rep(S, M.dec[p], d), LAMBDA m :
  With(step_node(M, m.r), LAMBDA n :
  With(n # NULL, LAMBDA found :
  With(IF found THEN n ELSE Len(M.dec) + 1, LAMBDA h :
  With(IF d = 2 THEN 2 ELSE 1 - d, LAMBDA d1 :
    [S    |-> IF found THEN m.S ELSE [m.S EXCEPT ![m.r].last = step_label(d)],
     M    |-> IF found THEN M ELSE gtie(M, h, m.r),
     dist |-> IF found THEN dist ELSE Append(dist, dist[p] + 1),
     cm   |-> [e \in (DOMAIN cm) \cup {<<h, d1>>, <<p, d>>} |->
                 IF e = <<h, d1>> THEN p ELSE IF e = <<p, d>> THEN h ELSE cm[e]],
     h    |-> h])))))

\* the host asks for the neighbour of the heptagon p in direction d
CreateStep(p, d) ==
  /\ ~walk.on
  /\ \E c \in {create_step(reps, [dec |-> dec, enc |-> enc], distance, cmove, p, d)} :
       /\ Len(c.M.dec) <= MaxNodes
       /\ reps' = c.S
       /\ dec' = c.M.dec
       /\ enc' = c.M.enc
       /\ distance' = c.dist
       /\ cmove' = c.cm
  /\ UNCHANGED <<prepared, ac, ca, grig_limit, all, nmaps, assoc, walk>>
  /\ UNCHANGED obsVars
  /\ UNCHANGED wordVars

\* hrmap_grigorchuk::draw shows the label deform(dec[c->master]) of a heptagon
Draw(h) ==
  /\ ~walk.on
  /\ \E l \in {deform(reps, dec[h])} :
       /\ l.ok
       /\ reps' = l.S
  /\ UNCHANGED <<prepared, ac, ca, grig_limit, all, assoc, walk>>
  /\ UNCHANGED mapVars
  /\ UNCHANGED obsVars
  /\ UNCHANGED wordVars

\* ---- the words w1, w2 are multiplied out letter by letter, w1 first
Word1(c) ==
  /\ Len(w1) < MaxWordLen
  /\ w2 = <<>>
  /\ \E m \in {mul(reps, r1, gen(c))} :
       /\ reps' = m.S
       /\ r1' = m.r
  /\ w1' = Append(w1, c)
  /\ UNCHANGED <<prepared, ac, ca, grig_limit, all, w2, r2, assoc, walk>>
  /\ UNCHANGED mapVars
  /\ UNCHANGED obsVars

Word2(c) ==
  /\ Len(w2) < MaxWordLen
  /\ \E m \in {mul(reps, r2, gen(c))} :
       /\ reps' = m.S
       /\ r2' = m.r
  /\ w2' = Append(w2, c)
  /\ UNCHANGED <<prepared, ac, ca, grig_limit, all, w1, r1, assoc, walk>>
  /\ UNCHANGED mapVars
  /\ UNCHANGED obsVars

\* ---- one test of associativity on three discovered representatives
Assoc(x, y, z) ==
  /\ prepared
  /\ ~InPrepare
  /\ assoc.x = NULL
  /\ \E xy \in {mul(reps, x, y)} :
     \E l \in {mul(xy.S, xy.r, z)} :
     \E yz \in {mul(l.S, y, z)} :
     \E r \in {mul(yz.S, x, yz.r)} :
       /\ reps' = r.S
       /\ assoc' = [x |-> x, y |-> y, z |-> z, l |-> l.r, r |-> r.r]
  /\ UNCHANGED <<prepared, ac, ca, grig_limit, all, walk>>
  /\ UNCHANGED mapVars
  /\ UNCHANGED obsVars
  /\ UNCHANGED wordVars

\* ---- a way of travelling: the directions s are followed again and again
Ways == UNION {[1..n -> 0..2] : n \in 1..MaxSeqLen}

Returned == walk.on /\ walk.moved /\ walk.i = 0 /\ walk.at = walk.start

StartWalk(p, s) ==
  /\ ~walk.on
  /\ walk' = [on |-> TRUE, s |-> s, i |-> 0, at |-> p, start |-> p, moved |-> FALSE]
  /\ UNCHANGED <<assoc>>
  /\ UNCHANGED coreVars
  /\ UNCHANGED mapVars
  /\ UNCHANGED obsVars
  /\ UNCHANGED wordVars

WalkStep ==
  /\ walk.on
  /\ ~Returned
  /\ Len(dec) < MaxWalk
  /\ \E c \in {create_step(reps, [dec |-> dec, enc |-> enc], distance, cmove,
                            walk.at, walk.s[walk.i + 1])} :
       /\ reps' = c.S
       /\ dec' = c.M.dec
       /\ enc' = c.M.enc
       /\ distance' = c.dist
       /\ cmove' = c.cm
       /\ walk' = [walk EXCEPT !.at = c.h, !.i = (walk.i + 1) % Len(walk.s),
                               !.moved = TRUE]
  /\ UNCHANGED <<prepared, ac, ca, grig_limit, all, nmaps, assoc>>
  /\ UNCHANGED obsVars
  /\ UNCHANGED wordVars

Next ==
  \/ \E x, y \in 1..MaxArg : x <= Len(reps) /\ y <= Len(reps) /\ Mul(x, y)
  \/ hrmap_grigorchuk
  \/ \E p \in DOMAIN dec, d \in 0..2 : CreateStep(p, d)
  \/ \E h \in DOMAIN dec : Draw(h)

Spec == Init /\ [][Next]_vars

NextWord ==
  \/ \E c \in Letters : Word1(c)
  \/ \E c \in Letters : Word2(c)

InitWord == Init /\ grig_limit = 0

SpecWord == InitWord /\ [][NextWord]_vars

NextAssoc ==
  \/ hrmap_grigorchuk
  \/ \E x, y, z \in DOMAIN reps :
       x \in {all[i] : i \in DOMAIN all} /\ y \in {all[i] : i \in DOMAIN all}
       /\ z \in {all[i] : i \in DOMAIN all} /\ Assoc(x, y, z)

SpecAssoc == Init /\ [][NextAssoc]_vars

NextWalk ==
  \/ hrmap_grigorchuk
  \/ \E p \in DOMAIN dec, d \in 0..2 : CreateStep(p, d)
  \/ \E p \in DOMAIN dec, s \in Ways : StartWalk(p, s)
  \/ WalkStep

SpecWalk == Init /\ [][NextWalk]_vars /\ WF_vars(WalkStep)

\* ------------------------------------------------------------------ claims
Triple(r) == <<r.swapped, r.a0, r.a1>>
Discovered == {i \in DOMAIN reps : reps[i].len # -1}
Bound == DOMAIN enc
Decodable == {ch_a, ch_b, ch_c, ch_d, ch_A, ch_C}

\* C1: no two distinct representatives (static or stored) have the same triple
\* (swapped, a0, a1); the lookup at the end of a call of mul whose candidate has
\* the triple of a static object returns that object and inserts nothing, and
\* one whose candidate has the triple of a stored entry returns that entry and
\* inserts nothing.
C1_HashConsing ==
  /\ \A i, j \in DOMAIN reps : RepEq(reps[i], reps[j]) => i = j
  /\ call.general =>
       /\ \A k \in DOMAIN Statics :
            call.cand = Triple(Statics[k]) => call.r = k /\ call.n1 = call.n0
       /\ \A i \in 1..call.n0 :
            call.cand = Triple(reps[i]) => call.r = i /\ call.n1 = call.n0

\* with entries in the store, the lookup of a call of mul returned a static
\* object and inserted nothing
C1_Witness ==
  /\ call.general
  /\ call.r \in DOMAIN Statics
  /\ call.n1 = call.n0
  /\ Len(reps) > Len(Statics)

\* C2: the products of two words are the same reference exactly when
\* empt(w1 followed by the reversal of w2) is true.
C2_RefEqIffValueEq == (r1 = r2) <=> empt(w1 \o Reverse(w2))

\* two different words of full length with the same stored representative
C2_Witness ==
  /\ r1 = r2
  /\ r1 \in all_reps(reps)
  /\ w1 # w2
  /\ Len(w1) = MaxWordLen
  /\ Len(w2) > 0

\* C3: mul(mul(x,y),z) and mul(x,mul(y,z)) return the same reference for
\* discovered representatives x, y, z.
C3_Associative == assoc.x # NULL => assoc.l = assoc.r

C3_Witness ==
  /\ assoc.x \in all_reps(reps)
  /\ assoc.y \in all_reps(reps)
  /\ assoc.z \in all_reps(reps)
  /\ assoc.x # assoc.y
  /\ assoc.y # assoc.z
  /\ assoc.l = assoc.r
  /\ assoc.l \in all_reps(reps)

\* C4: dec and enc are mutually inverse.
C4_Bijection ==
  /\ \A h \in DOMAIN dec : dec[h] \in DOMAIN enc /\ enc[dec[h]] = h
  /\ \A r \in DOMAIN enc : enc[r] \in DOMAIN dec /\ dec[enc[r]] = r

\* three heptagons are bound and a step came back to a bound one
C4_Witness ==
  /\ Len(dec) >= 3
  /\ \E e \in DOMAIN cmove : cmove[e] = 1 /\ e[1] # 2

\* the representatives reached from y by the three generators b, ac, ca
Neighbours(y) ==
  {mul(reps, y, grig_b).r, mul(reps, y, ac).r, mul(reps, y, ca).r}

\* C5: in the order of the vector all the values len do not decrease, the
\* identity has len 0, and every other discovered representative has len one
\* plus the least len of the discovered representatives it is a neighbour of.
C5_BfsDistances ==
  prepared =>
    /\ {all[i] : i \in DOMAIN all} = Discovered
    /\ \A i \in 1..(Len(all) - 1) : reps[all[i]].len <= reps[all[i + 1]].len
    /\ all[1] = grig_I
    /\ reps[grig_I].len = 0
    /\ \A i \in 2..Len(all) :
         With({reps[y].len : y \in {z \in Discovered : all[i] \in Neighbours(z)}},
              LAMBDA L :
                \E m \in L : (\A n \in L : m <= n) /\ reps[all[i]].len = 1 + m)

\* the enumeration went beyond the first layer
C5_Witness ==
  /\ prepared
  /\ \E x \in Discovered : reps[x].len = 2
  /\ \E x \in Discovered : reps[x].len = 1 /\ reps[x].last = ch_C

\* C6: a way of travelling that is followed again and again comes back to the
\* heptagon it started from.
C6_EventuallyReturns == walk.on ~> Returned

\* a way of two directions came back after binding eight heptagons
C6_Witness ==
  /\ Returned
  /\ Len(walk.s) = 2
  /\ Len(dec) >= 8

\* C7: after prepare() at most grig_limit representatives have a distance.
C7_HardCap == prepared => Cardinality(Discovered) <= grig_limit

\* C8: deform of a discovered or bound representative ends, and the product of
\* the word it returns is that representative.
C8_RoundTrip ==
  \A x \in Discovered \cup Bound :
    With(deform(reps, x), LAMBDA l :
      l.ok /\ product(l.S, grig_I, l.t).r = x)

\* the label C that the enumeration gave to ca was overwritten by create_step
C8_Witness ==
  /\ prepared
  /\ reps[ca].visited
  /\ ca \in Bound
  /\ reps[ca].last = ch_b

\* C9 as stated: after a call of mul that takes no constant-time case the
\* result's field last is the label of y.
C9_LastIsLabelOfY == call.general => call.rlast = call.ylast

\* C9 as amended: the result's field last is the label of y when the lookup
\* inserted the result, and is left as it was when the result already existed.
C9_LastSetOnInsertOnly ==
  call.general =>
    IF call.n1 > call.n0
      THEN call.r = call.n1 /\ call.rlast = call.ylast
      ELSE call.rlast = call.rold

\* an existing representative was returned whose label is not that of y
C9_Witness ==
  /\ call.general
  /\ call.n1 = call.n0
  /\ call.rlast # call.ylast

\* C10: every representative other than the identity has a label that deform
\* recognises.
C10_LastDecodable ==
  \A i \in DOMAIN reps : i # grig_I => reps[i].last \in Decodable

\* mul, prepare and create_step have all acted
C10_Witness ==
  /\ nmul > 0
  /\ prepared
  /\ Len(dec) > 1
  /\ \E i \in all_reps(reps) : reps[i].last = ch_A

====
